---- MODULE Spec2Model ----
(***************************************************************************)
(* ESG-AutoScorer (src/main.py): the batch scoring endpoint, the           *)
(* per-document pipeline, the model fallback loop and the score            *)
(* aggregation, as a state machine.                                        *)
(*                                                                         *)
(* Numbers.  The aggregation only uses sums and the two ratios raw/max,    *)
(* so JSON numbers are modelled as integers.  A scaled value is kept as    *)
(* an exact fraction [n, d]; totals are integers counting hundredths       *)
(* (3600 is 36.0).  Python's round(x, 2) is modelled on the exact          *)
(* fraction, ties going to the even hundredth.                             *)
(*                                                                         *)
(* Strings.  A text is a sequence of tokens; the token ErrPrefix is the    *)
(* literal the extractor's error message starts with.  The source's        *)
(* Chinese literals are written in English.                                *)
(***************************************************************************)
EXTENDS Integers, Sequences, FiniteSets, TLC

(* ---------------------------------------------------------------- bounds *)
MaxFiles == 2
MaxSections == 2
MaxScore == 2

(* ------------------------------------------------------------- JSON data *)
\* A JSON scalar met where a number is expected.
Num(n) == [t |-> "num", v |-> n]
NullV == [t |-> "null", v |-> 0]
Absent == [t |-> "absent", v |-> 0]
StrV == [t |-> "str", v |-> 0]

\* A key that a dict does not have.
NoKey == "<no key>"

\* A JSON array where one is expected: "list", "absent" (key missing) or
\* "bad" (null, a number: anything a for loop cannot walk).
List(items) == [t |-> "list", items |-> items]
NoList == [t |-> "absent", items |-> <<>>]
BadList == [t |-> "bad", items |-> <<>>]

\* CriterionScore, SectionScore, BreakdownItem as the model's JSON gives
\* them; t = "bad" is a value that is not a dict.
Criterion(score, max_score) ==
    [t |-> "obj", score |-> score, max_score |-> max_score]
Section(score, max_score, criteria) ==
    [t |-> "obj", score |-> score, max_score |-> max_score, criteria |-> criteria]
BadSection == [t |-> "bad", score |-> Absent, max_score |-> Absent, criteria |-> NoList]
BreakdownItem(id, sections) == [t |-> "obj", id |-> id, sections |-> sections]
BadItem == [t |-> "bad", id |-> NoKey, sections |-> NoList]

\* TotalsScore in hundredths; t = "null" is None, "absent" a missing key.
Totals(report, media, final) ==
    [t |-> "obj", report |-> report, media |-> media, final |-> final]
NullTotals == [t |-> "null", report |-> 0, media |-> 0, final |-> 0]
NoTotals == [t |-> "absent", report |-> 0, media |-> 0, final |-> 0]

\* The dict a response parses to, and the dict a pipeline returns.
\* strengths and improvements are the sets of their facet keys.
Dict(company, overview_comment, strengths, improvements, breakdown, totals) ==
    [t |-> "obj", company |-> company, overview_comment |-> overview_comment,
     strengths |-> strengths, improvements |-> improvements,
     breakdown |-> breakdown, totals |-> totals]
\* json.loads gave a list, a string, a number or null.
NonObject == [t |-> "nonobj", company |-> NoKey, overview_comment |-> <<>>,
              strengths |-> {}, improvements |-> {},
              breakdown |-> NoList, totals |-> NoTotals]

(* ------------------------------------------------- _calculate_final_scores *)
\* x.get(key, 0) or 0
GetOr0(x) == IF x.t = "num" THEN x.v ELSE 0

RECURSIVE SumScore(_)
SumScore(s) == IF s = <<>> THEN 0 ELSE GetOr0(Head(s).score) + SumScore(Tail(s))

RECURSIVE SumMaxScore(_)
SumMaxScore(s) == IF s = <<>> THEN 0 ELSE GetOr0(Head(s).max_score) + SumMaxScore(Tail(s))

\* for s in sections for c in s.get("criteria", [])
RECURSIVE AllCriteria(_)
AllCriteria(sections) ==
    IF sections = <<>> THEN <<>>
    ELSE Head(sections).criteria.items \o AllCriteria(Tail(sections))

\* Index of the first item with the given id, 0 if none.
RECURSIVE FirstWithId(_, _, _)
FirstWithId(items, id, i) ==
    IF i > Len(items) THEN 0
    ELSE IF items[i].t = "obj" /\ items[i].id = id THEN i
    ELSE FirstWithId(items, id, i + 1)

\* next((item for item in breakdown if item.get("id") == id), {})
NextItem(breakdown, id) ==
    LET k == FirstWithId(breakdown.items, id, 1)
    IN IF k = 0 THEN BreakdownItem(NoKey, NoList) ELSE breakdown.items[k]

\* The scan for id calls .get on every item up to the first match: it
\* raises when one of them is not a dict.
ScanRaises(breakdown, id) ==
    LET k == FirstWithId(breakdown.items, id, 1)
        last == IF k = 0 THEN Len(breakdown.items) ELSE k
    IN breakdown.t = "bad" \/ \E i \in 1..last : breakdown.items[i].t = "bad"

\* sum(x.get("score", 0) or 0 ...) raises on a value that is not a dict and
\* on a score or max_score that is not a number.
SumRaises(s) ==
    \E i \in 1..Len(s) :
        s[i].t = "bad" \/ s[i].score.t = "str" \/ s[i].max_score.t = "str"

ReportRaises(item) == item.sections.t = "bad" \/ SumRaises(item.sections.items)

MediaRaises(item) ==
    \/ item.sections.t = "bad"
    \/ \E i \in 1..Len(item.sections.items) :
          \/ item.sections.items[i].t = "bad"
          \/ item.sections.items[i].criteria.t = "bad"
    \/ SumRaises(AllCriteria(item.sections.items))

\* (raw / max) * weight if max > 0 else 0, as an exact fraction.
Scaled_ZeroKeepsRaw(raw, max, weight) ==
    IF max > 0 THEN [n |-> raw * weight, d |-> max] ELSE [n |-> raw * weight, d |-> 1]

Scaled(raw, max, weight) ==
    IF max > 0 THEN [n |-> raw * weight, d |-> max] ELSE [n |-> 0, d |-> 1]

\* round(n / d, 2) in hundredths, d > 0.
Round2(n, d) ==
    LET h == 100 * n
        q == h \div d
        r == h % d
    IN IF 2 * r < d THEN q
       ELSE IF 2 * r > d THEN q + 1
       ELSE IF q % 2 = 0 THEN q ELSE q + 1

\* round(report_scaled + media_scaled, 2)
FinalScore_SumOfRounded(rs, ms) == Round2(rs.n, rs.d) + Round2(ms.n, ms.d)

FinalScore(rs, ms) == Round2(rs.n * ms.d + ms.n * rs.d, rs.d * ms.d)

\* Lines 186-203: the body of the try block, when nothing raises.
ComputeTotals(ai_data) ==
    LET report_breakdown == NextItem(ai_data.breakdown, "report")
        media_breakdown == NextItem(ai_data.breakdown, "media")
        report_raw_score == SumScore(report_breakdown.sections.items)
        report_raw_max == SumMaxScore(report_breakdown.sections.items)
        media_criteria == AllCriteria(media_breakdown.sections.items)
        media_raw_score == SumScore(media_criteria)
        media_raw_max == SumMaxScore(media_criteria)
        report_scaled == Scaled(report_raw_score, report_raw_max, 60)
        media_scaled == Scaled(media_raw_score, media_raw_max, 40)
    IN Totals(Round2(report_scaled.n, report_scaled.d),
              Round2(media_scaled.n, media_scaled.d),
              FinalScore(report_scaled, media_scaled))

\* The try block raises.
ComputeRaises(ai_data) ==
    \/ ai_data.t # "obj"
    \/ ScanRaises(ai_data.breakdown, "report")
    \/ ScanRaises(ai_data.breakdown, "media")
    \/ ReportRaises(NextItem(ai_data.breakdown, "report"))
    \/ MediaRaises(NextItem(ai_data.breakdown, "media"))

\* The function also writes 0 into every section score that is not a number.
DefaultedSection(s) == [s EXCEPT !.score = IF s.score.t = "num" THEN s.score ELSE Num(0)]
DefaultedItem(b) ==
    [b EXCEPT !.sections.items =
        [j \in 1..Len(b.sections.items) |-> DefaultedSection(b.sections.items[j])]]
CalculateFinalScores_DefaultsScores(ai_data) ==
    IF ~ComputeRaises(ai_data)
    THEN [raised |-> FALSE,
          data |-> [ai_data EXCEPT
                       !.totals = ComputeTotals(ai_data),
                       !.breakdown.items =
                           [k \in 1..Len(ai_data.breakdown.items) |->
                               DefaultedItem(ai_data.breakdown.items[k])]]]
    ELSE IF ai_data.t = "obj"
    THEN [raised |-> FALSE, data |-> [ai_data EXCEPT !.totals = NullTotals]]
    ELSE [raised |-> TRUE, data |-> ai_data]

\* _calculate_final_scores: [raised, data].  The except branch assigns
\* ai_data["totals"] = None, which itself raises when ai_data is not a dict.
CalculateFinalScores(ai_data) ==
    IF ~ComputeRaises(ai_data)
    THEN [raised |-> FALSE, data |-> [ai_data EXCEPT !.totals = ComputeTotals(ai_data)]]
    ELSE IF ai_data.t = "obj"
    THEN [raised |-> FALSE, data |-> [ai_data EXCEPT !.totals = NullTotals]]
    ELSE [raised |-> TRUE, data |-> ai_data]

(* ------------------------------------------------------ _parse_ai_response *)
\* A response text: wrapped in a ```json fence or not, and either text
\* json.loads rejects (body = Garbage) or the text of a JSON value.
Garbage == [t |-> "garbage", company |-> NoKey, overview_comment |-> <<>>,
            strengths |-> {}, improvements |-> {},
            breakdown |-> NoList, totals |-> NoTotals]
Text(fenced, body) == [fenced |-> fenced, body |-> body]

\* strip(), remove the fence markers, json.loads: [raised, data].
ParseAiResponse(response_text) ==
    LET cleaned_text == Text(FALSE, response_text.body)
    IN IF cleaned_text.body.t = "garbage"
       THEN [raised |-> TRUE, data |-> cleaned_text.body]
       ELSE [raised |-> FALSE, data |-> cleaned_text.body]

(* ------------------------------------------------------- program constants *)
FALLBACK_MODELS == <<"gemini-1.5-flash-latest", "gemini-1.5-pro-latest">>
PdfType == "application/pdf"
ErrPrefix == "ERROR:"

\* last_error before any attempt, and the messages the handlers build.
UnknownError == <<"unknown AI error">>
JsonError(detail) == <<"JSON parse failed - ">> \o detail
FinalErrorMessage(last_error) == <<"all fallback models failed, last error: ">> \o last_error
ExtractError(filename) == <<ErrPrefix, "cannot read PDF file", filename>>

\* Line 259.
ExhaustedResult_ZeroTotals(company_name, last_error) ==
    Dict(company_name, FinalErrorMessage(last_error), {}, {}, List(<<>>), Totals(0, 0, 0))

ExhaustedResult(company_name, last_error) ==
    Dict(company_name, FinalErrorMessage(last_error), {}, {}, List(<<>>), NullTotals)

\* Line 280.
ExtractionFailedResult(company_name, pdf_text) ==
    Dict(company_name, pdf_text, {}, {}, List(<<>>), NullTotals)

\* The prefix test never answers yes.
StartsWithError_Never(pdf_text) == FALSE

\* pdf_text.startswith(<the error prefix>)
StartsWithError(pdf_text) == Len(pdf_text) > 0 /\ pdf_text[1] = ErrPrefix

(* ------------------------------------------------------------------ state *)
VARIABLES
    files,          \* the uploaded files: [filename, content_type]
    company_names,  \* the company_names form field
    website_urls,   \* the website_urls form field
    ep_pc,          \* where scoring_batch_endpoint stands
    i,              \* the index of the for loop of lines 302-307
    tasks,          \* the coroutines of line 306, in creation order
    reads,          \* the indices of the files read (file.read()), in order
    pipe,           \* per task: the state of process_single_file
    results,        \* what asyncio.gather collects, one slot per task
    http,           \* the status and detail the call ends with
    response,       \* the list returned to the caller
    calc_pc,        \* _calculate_final_scores called on its own: position,
    calc_doc,       \*   its argument
    calc_ret        \*   and what it returned

vars == <<files, company_names, website_urls, ep_pc, i, tasks, reads, pipe,
          results, http, response, calc_pc, calc_doc, calc_ret>>
ep_vars == <<files, company_names, website_urls, ep_pc, i, tasks, reads, pipe,
             results, http, response>>
calc_vars == <<calc_pc, calc_doc, calc_ret>>

(* ----------------------------------------------------------------- inputs *)
CompanyNames == <<"Acme", "Borealis", "Cobalt", "Dune">>
WebsiteUrls == <<"https://acme", "https://borealis", "https://cobalt", "https://dune">>
FileNames == <<"a.pdf", "b.pdf", "c.pdf", "d.pdf">>
ContentTypes == {PdfType, "text/plain"}

\* What the extractor can find in a readable PDF, whitespace-normalised:
\* some text, no text at all, text that itself starts with the error prefix.
PdfTexts == {<<"report", "text">>, <<>>, <<ErrPrefix, "report">>}

\* A score tree the model may answer with: report 1/2, media 1/2.
GoodBreakdown ==
    List(<<BreakdownItem("report",
               List(<<Section(Num(1), Num(2), List(<<Criterion(Num(2), Num(2))>>))>>)),
           BreakdownItem("media",
               List(<<Section(Num(0), Num(1), List(<<Criterion(Num(1), Num(2))>>))>>))>>)

\* The JSON objects the model may answer with: a score document naming one
\* of the companies, {}, a document without breakdown, a document whose
\* breakdown is not an array.
ResponseDocs ==
    {Dict(c, <<"summary">>, {"completeness"}, {"communication"}, GoodBreakdown, NoTotals) :
        c \in {CompanyNames[1], CompanyNames[2]}}
    \cup {Dict(NoKey, <<>>, {}, {}, NoList, NoTotals),
          Dict(CompanyNames[1], <<"summary">>, {}, {}, NoList, NoTotals),
          Dict(CompanyNames[1], <<"summary">>, {}, {}, BadList, NoTotals)}

\* What one call of generate_content can do: raise, or return a text.
NoText == Text(FALSE, Garbage)
ServiceErrors == {<<"503 service unavailable">>}
Outcomes ==
    {[raised |-> TRUE, error |-> e, text |-> NoText] : e \in ServiceErrors}
    \cup {[raised |-> FALSE, error |-> <<>>, text |-> Text(FALSE, b)] :
             b \in ResponseDocs \cup {Garbage, NonObject}}
    \cup {[raised |-> FALSE, error |-> <<>>, text |-> Text(TRUE, b)] :
             b \in {Dict(CompanyNames[1], <<"summary">>, {"completeness"},
                         {"communication"}, GoodBreakdown, NoTotals)}}

\* str(e) of the errors raised inside the try block of lines 235-247.
JsonDecodeDetail == <<"Expecting value">>
TypeErrorText == <<"object does not support item assignment">>

(* ------------------------------------------------ call_gemini_for_scoring_sync *)
NoResult == [t |-> "none", company |-> NoKey, overview_comment |-> <<>>,
             strengths |-> {}, improvements |-> {},
             breakdown |-> NoList, totals |-> NoTotals]

NewPipe == [pc |-> "created", pdf_text |-> <<>>, model_i |-> 1,
            last_error |-> UnknownError, result |-> NoResult,
            attempts |-> <<>>, extractions |-> 0, faulted |-> FALSE]

\* One entry of the attempt log: the model tried, what its response parsed
\* to ("none" when the call raised) and whether the attempt returned.
Logged(p, parsed, ok) ==
    Append(p.attempts, [model |-> FALLBACK_MODELS[p.model_i], parsed |-> parsed, ok |-> ok])

\* The except branches keep the error of the first failure.
AttemptFailed_KeepsFirstError(p, company_name, parsed, error) ==
    LET kept == IF p.attempts = <<>> THEN error ELSE p.last_error
    IN IF p.model_i < Len(FALLBACK_MODELS)
       THEN [p EXCEPT !.model_i = @ + 1, !.last_error = kept,
                      !.attempts = Logged(p, parsed, FALSE)]
       ELSE [p EXCEPT !.pc = "done", !.last_error = kept,
                      !.attempts = Logged(p, parsed, FALSE),
                      !.result = ExhaustedResult(company_name, kept)]

\* A failed attempt is retried on the same model, without end.
AttemptFailed_RetriesSameModel(p, company_name, parsed, error) ==
    [p EXCEPT !.last_error = error, !.attempts = Logged(p, parsed, FALSE)]

\* An except branch of lines 249-255: the loop goes on with the next model,
\* and after the last one the function returns the result of line 259.
AttemptFailed(p, company_name, parsed, error) ==
    IF p.model_i < Len(FALLBACK_MODELS)
    THEN [p EXCEPT !.model_i = @ + 1, !.last_error = error,
                   !.attempts = Logged(p, parsed, FALSE)]
    ELSE [p EXCEPT !.pc = "done", !.last_error = error,
                   !.attempts = Logged(p, parsed, FALSE),
                   !.result = ExhaustedResult(company_name, error)]

\* Line 247: return ai_data_with_scores.
AttemptReturns_NoReturn(p, data) ==
    IF p.model_i < Len(FALLBACK_MODELS)
    THEN [p EXCEPT !.model_i = @ + 1, !.result = data,
                   !.attempts = Logged(p, "obj", TRUE)]
    ELSE [p EXCEPT !.pc = "done", !.result = data,
                   !.attempts = Logged(p, "obj", TRUE)]

AttemptReturns(p, data) ==
    [p EXCEPT !.pc = "done", !.result = data, !.attempts = Logged(p, "obj", TRUE)]

\* One pass of the loop body of lines 235-255 for the model at p.model_i.
AttemptStep(p, company_name, outcome) ==
    IF outcome.raised
    THEN AttemptFailed(p, company_name, "none", outcome.error)
    ELSE LET parsed == ParseAiResponse(outcome.text)
         IN IF parsed.raised
            THEN AttemptFailed(p, company_name, "garbage", JsonError(JsonDecodeDetail))
            ELSE LET scored == CalculateFinalScores(parsed.data)
                 IN IF scored.raised
                    THEN AttemptFailed(p, company_name, parsed.data.t, TypeErrorText)
                    ELSE AttemptReturns(p, scored.data)

(* ------------------------------------------------------ process_single_file *)
\* Line 287: the result of the outer except branch.
UnexpectedErrorResult(company_name, filename) ==
    Dict(company_name, <<"unexpected error while processing", filename>>,
         {}, {}, List(<<>>), NullTotals)

\* Lines 277-282 once extract_text_from_pdf_sync has returned pdf_text:
\* the error-prefix test, then the hand-over to the model loop.
AfterExtraction(p, company_name, pdf_text, faulted) ==
    LET q == [p EXCEPT !.pdf_text = pdf_text, !.extractions = @ + 1,
                       !.faulted = faulted]
    IN IF StartsWithError(pdf_text)
       THEN [q EXCEPT !.pc = "done",
                      !.result = ExtractionFailedResult(company_name, pdf_text)]
       ELSE [q EXCEPT !.pc = "invoking"]

(* --------------------------------------------------- scoring_batch_endpoint *)
\* Line 298.
LengthsAgree_FilesCovered(f, c, u) == Len(f) <= Len(c) /\ Len(f) <= Len(u)

LengthsAgree(f, c, u) == Len(f) = Len(c) /\ Len(c) = Len(u)

\* Line 303.
IsPdf(content_type) == content_type = PdfType

\* Line 309: not tasks.
NoTasks_Never(ts) == FALSE

NoTasks(ts) == Len(ts) = 0

\* asyncio.gather puts the result of the t-th awaitable in slot t, whatever
\* the number k of awaitables that completed before it.
GatherSlot_ByCompletion(t, k) == k + 1

GatherSlot(t, k) == t

\* The response_model of line 289: List[ScoringResult] with the classes of
\* lines 57-94 (the fields this model carries).
NumberOk(x) == x.t = "num"
OptionalNumberOk(x) == x.t \in {"num", "null", "absent"}
ListOk(l) == l.t \in {"list", "absent"}

CriterionOk(c) ==
    c.t = "obj" /\ NumberOk(c.max_score) /\ OptionalNumberOk(c.score)

SectionOk(s) ==
    /\ s.t = "obj" /\ NumberOk(s.max_score) /\ OptionalNumberOk(s.score)
    /\ ListOk(s.criteria)
    /\ \A k \in 1..Len(s.criteria.items) : CriterionOk(s.criteria.items[k])

BreakdownItemOk(b) ==
    /\ b.t = "obj" /\ b.id # NoKey
    /\ ListOk(b.sections)
    /\ \A k \in 1..Len(b.sections.items) : SectionOk(b.sections.items[k])

IsScoringResult(r) ==
    /\ r.t = "obj" /\ r.company # NoKey
    /\ ListOk(r.breakdown)
    /\ \A k \in 1..Len(r.breakdown.items) : BreakdownItemOk(r.breakdown.items[k])

NoHttp == [status |-> 0, detail |-> ""]
Done(t) == pipe[t].pc = "done"
NumDone == Cardinality({t \in 1..Len(pipe) : Done(t)})

\* A task that has returned hands its result to gather.
Deliver(t, p) ==
    /\ pipe' = [pipe EXCEPT ![t] = p]
    /\ results' = IF p.pc = "done"
                  THEN [results EXCEPT ![GatherSlot(t, NumDone)] = p.result]
                  ELSE results

Init ==
    /\ \E n \in 0..MaxFiles :
          \E cts \in [1..n -> ContentTypes] :
              files = [j \in 1..n |-> [filename |-> FileNames[j], content_type |-> cts[j]]]
    /\ \E m \in 0..MaxFiles : company_names = SubSeq(CompanyNames, 1, m)
    /\ \E k \in 0..MaxFiles : website_urls = SubSeq(WebsiteUrls, 1, k)
    /\ ep_pc = "start"
    /\ i = 1
    /\ tasks = <<>>
    /\ reads = <<>>
    /\ pipe = <<>>
    /\ results = <<>>
    /\ http = NoHttp
    /\ response = <<>>
    /\ calc_pc = "idle"
    /\ calc_doc = NoResult
    /\ calc_ret = [raised |-> FALSE, data |-> NoResult]

\* Lines 298-301.
CheckLengths ==
    /\ ep_pc = "start"
    /\ IF LengthsAgree(files, company_names, website_urls)
       THEN ep_pc' = "loop" /\ http' = http
       ELSE ep_pc' = "rejected" /\ http' = [status |-> 400, detail |-> "length mismatch"]
    /\ UNCHANGED <<files, company_names, website_urls, i, tasks, reads, pipe,
                   results, response, calc_vars>>

\* Lines 303-305: a file that is not a PDF is skipped.
SkipFile ==
    /\ ep_pc = "loop" /\ i <= Len(files)
    /\ ~IsPdf(files[i].content_type)
    /\ i' = i + 1
    /\ UNCHANGED <<files, company_names, website_urls, ep_pc, tasks, reads, pipe,
                   results, http, response, calc_vars>>

\* The name and URL are taken at the position of the task among the tasks.
NewTask_ByTaskCount(k, n) ==
    [file_content |-> k, filename |-> files[k].filename,
     company_name |-> company_names[n + 1], website_url |-> website_urls[n + 1]]

\* Line 306: the arguments of process_single_file for the file at index k of
\* the loop, n tasks having been created before.
NewTask(k, n) ==
    [file_content |-> k, filename |-> files[k].filename,
     company_name |-> company_names[k], website_url |-> website_urls[k]]

\* Lines 306-307: the file is read and its coroutine created (not started).
ReadFile ==
    /\ ep_pc = "loop" /\ i <= Len(files)
    /\ IsPdf(files[i].content_type)
    /\ reads' = Append(reads, i)
    /\ tasks' = Append(tasks, NewTask(i, Len(tasks)))
    /\ pipe' = Append(pipe, NewPipe)
    /\ i' = i + 1
    /\ UNCHANGED <<files, company_names, website_urls, ep_pc, results, http,
                   response, calc_vars>>

\* Lines 309-310.
RejectNoPdf ==
    /\ ep_pc = "loop" /\ i > Len(files)
    /\ NoTasks(tasks)
    /\ ep_pc' = "rejected"
    /\ http' = [status |-> 400, detail |-> "no valid PDF"]
    /\ UNCHANGED <<files, company_names, website_urls, i, tasks, reads, pipe,
                   results, response, calc_vars>>

\* Line 312: gather schedules every coroutine; each runs up to its first
\* await, the extraction handed to the executor.
Gather ==
    /\ ep_pc = "loop" /\ i > Len(files)
    /\ ~NoTasks(tasks)
    /\ ep_pc' = "gather"
    /\ pipe' = [t \in 1..Len(tasks) |-> [pipe[t] EXCEPT !.pc = "extracting"]]
    /\ results' = [t \in 1..Len(tasks) |-> NoResult]
    /\ UNCHANGED <<files, company_names, website_urls, i, tasks, reads, http,
                   response, calc_vars>>

\* extract_text_from_pdf_sync (lines 214-223) returns for task t, with the
\* text of the PDF or, when the reader raised, with the error message.
Extract(t) ==
    /\ ep_pc = "gather" /\ pipe[t].pc = "extracting"
    /\ \E faulted \in BOOLEAN :
          \E text \in (IF faulted THEN {ExtractError(tasks[t].filename)} ELSE PdfTexts) :
              Deliver(t, AfterExtraction(pipe[t], tasks[t].company_name, text, faulted))
    /\ UNCHANGED <<files, company_names, website_urls, ep_pc, i, tasks, reads,
                   http, response, calc_vars>>

\* Lines 230-231 or the executor raise before the loop of line 234 starts:
\* the outer except of process_single_file answers (lines 285-287).
InvokeCrash(t) ==
    /\ ep_pc = "gather" /\ pipe[t].pc = "invoking" /\ pipe[t].attempts = <<>>
    /\ Deliver(t, [pipe[t] EXCEPT !.pc = "done",
                       !.result = UnexpectedErrorResult(tasks[t].company_name,
                                                        tasks[t].filename)])
    /\ UNCHANGED <<files, company_names, website_urls, ep_pc, i, tasks, reads,
                   http, response, calc_vars>>

\* One attempt of the loop of lines 234-255 for task t.
Attempt(t) ==
    /\ ep_pc = "gather" /\ pipe[t].pc = "invoking"
    /\ \E outcome \in Outcomes :
          Deliver(t, AttemptStep(pipe[t], tasks[t].company_name, outcome))
    /\ UNCHANGED <<files, company_names, website_urls, ep_pc, i, tasks, reads,
                   http, response, calc_vars>>

\* Lines 312-317 once every task has returned, then the validation of the
\* returned list against response_model.
GatherReturn ==
    /\ ep_pc = "gather"
    /\ \A t \in 1..Len(pipe) : Done(t)
    /\ IF Len(results) = 0
       THEN /\ ep_pc' = "failed"
            /\ http' = [status |-> 500, detail |-> "no results"]
            /\ response' = response
       ELSE IF \A k \in 1..Len(results) : IsScoringResult(results[k])
       THEN /\ ep_pc' = "returned"
            /\ http' = [status |-> 200, detail |-> ""]
            /\ response' = results
       ELSE /\ ep_pc' = "failed"
            /\ http' = [status |-> 500, detail |-> "response validation"]
            /\ response' = response
    /\ UNCHANGED <<files, company_names, website_urls, i, tasks, reads, pipe,
                   results, calc_vars>>

Next ==
    \/ CheckLengths
    \/ SkipFile
    \/ ReadFile
    \/ RejectNoPdf
    \/ Gather
    \/ \E t \in 1..Len(tasks) : Extract(t)
    \/ \E t \in 1..Len(tasks) : InvokeCrash(t)
    \/ \E t \in 1..Len(tasks) : Attempt(t)
    \/ GatherReturn

Spec == Init /\ [][Next]_vars

(* --------------------------------- _calculate_final_scores on its own *)
\* The values a score and a max_score take in the documents below.
ScoreValues == {Absent, NullV} \cup {Num(n) : n \in 0..MaxScore}
MaxScoreValues == {Absent, Num(0), Num(MaxScore + 1), Num(MaxScore + 2)}
ScorePairs == ScoreValues \X MaxScoreValues

\* Sections of the "report" item: their own score counts; each carries one
\* criterion, which must not count.
ReportSections(q) ==
    [k \in 1..Len(q) |-> Section(q[k][1], q[k][2], List(<<Criterion(Num(1), Num(1))>>))]

\* Sections of the "media" item: the criteria count, all in one section or
\* one per section; the section's own score must not count.
MediaSections(q, together) ==
    IF together
    THEN <<Section(Num(1), Num(2), List([k \in 1..Len(q) |-> Criterion(q[k][1], q[k][2])]))>>
    ELSE [k \in 1..Len(q) |-> Section(Num(1), Num(2), List(<<Criterion(q[k][1], q[k][2])>>))]

ScoreDoc(breakdown) ==
    Dict(CompanyNames[1], <<"summary">>, {"completeness"}, {"communication"},
         breakdown, NoTotals)

\* A few fixed items to pair the varied ones with: 1/7, 2/9 and 1/3.
ReportPool ==
    {<<BreakdownItem("report", List(<<Section(Num(1), Num(7), NoList)>>))>>,
     <<BreakdownItem("report", List(<<Section(Num(2), Num(9), NoList)>>))>>,
     <<BreakdownItem("report", NoList)>>,
     <<>>}
MediaPool ==
    {<<BreakdownItem("media", List(<<Section(Absent, Num(1), List(<<Criterion(Num(1), Num(7))>>))>>))>>,
     <<BreakdownItem("media", List(<<Section(Absent, Num(1), List(<<Criterion(Num(1), Num(3))>>))>>))>>,
     <<BreakdownItem("media", List(<<Section(Num(1), Num(1), NoList)>>))>>,
     <<>>}

\* The rubric of the prompt (lines 129, 144, 154 and 169-173) scored
\* 60/100 and 19/19.
ExampleDoc ==
    ScoreDoc(List(<<
        BreakdownItem("report", List(<<
            Section(Num(25), Num(40), NoList),
            Section(Num(20), Num(35), NoList),
            Section(Num(15), Num(25), NoList)>>)),
        BreakdownItem("media", List(<<
            Section(Num(19), Num(19), List(<<
                Criterion(Num(3), Num(3)), Criterion(Num(4), Num(4)),
                Criterion(Num(4), Num(4)), Criterion(Num(4), Num(4)),
                Criterion(Num(4), Num(4))>>))>>))>>))

\* Parsed responses that are not score documents.
OddDocs ==
    {NonObject,
     ScoreDoc(BadList),
     ScoreDoc(NoList),
     ScoreDoc(List(<<BadItem>>)),
     ScoreDoc(List(<<BreakdownItem("report", BadList)>>)),
     ScoreDoc(List(<<BreakdownItem("report", List(<<BadSection>>))>>)),
     ScoreDoc(List(<<BreakdownItem("report", List(<<Section(StrV, Num(1), NoList)>>))>>)),
     ScoreDoc(List(<<BreakdownItem("media", List(<<Section(Num(1), Num(1), BadList)>>))>>)),
     ScoreDoc(List(<<BreakdownItem("report", List(<<Section(Num(1), Num(2), NoList)>>)),
                     BreakdownItem("media", NoList), BadItem>>)),
     ScoreDoc(List(<<BreakdownItem("other", NoList),
                     BreakdownItem("media", List(<<Section(Absent, Absent,
                         List(<<Criterion(Num(1), Num(2))>>))>>)),
                     BreakdownItem("report", List(<<Section(Num(1), Num(4), NoList)>>)),
                     BreakdownItem("report", List(<<Section(Num(4), Num(4), NoList)>>))>>))}

FixedDocs == {ExampleDoc} \cup OddDocs

\* The argument of the call: a varied "report" item with a fixed "media"
\* item, a fixed "report" item with a varied "media" item, or a fixed
\* document.
IsCalcDoc(d) ==
    \/ \E n \in 0..MaxSections : \E q \in [1..n -> ScorePairs] : \E m \in MediaPool :
          d = ScoreDoc(List(<<BreakdownItem("report", List(ReportSections(q)))>> \o m))
    \/ \E n \in 0..MaxSections : \E q \in [1..n -> ScorePairs] : \E r \in ReportPool :
          \E together \in BOOLEAN :
              d = ScoreDoc(List(r \o <<BreakdownItem("media", List(MediaSections(q, together)))>>))
    \/ d \in FixedDocs

\* Every call handed to the executor returns and the event loop runs the
\* coroutines that can go on: a step that stays possible is taken.
SpecFair == Init /\ [][Next]_vars /\ WF_vars(Next)

InitScore ==
    /\ files = <<>>
    /\ company_names = <<>>
    /\ website_urls = <<>>
    /\ ep_pc = "idle"
    /\ i = 1
    /\ tasks = <<>>
    /\ reads = <<>>
    /\ pipe = <<>>
    /\ results = <<>>
    /\ http = NoHttp
    /\ response = <<>>
    /\ calc_pc = "called"
    /\ IsCalcDoc(calc_doc)
    /\ calc_ret = [raised |-> FALSE, data |-> NoResult]

\* Lines 183-207.
Calculate ==
    /\ calc_pc = "called"
    /\ calc_ret' = CalculateFinalScores(calc_doc)
    /\ calc_pc' = "returned"
    /\ UNCHANGED <<calc_doc, ep_vars>>

NextScore == Calculate

SpecScore == InitScore /\ [][NextScore]_vars

(***************************************************************************)
(* Properties.                                                             *)
(***************************************************************************)

(* ------------------------------------------- what the claims speak about *)
\* The value a score or max_score counts for: absent and null count as 0.
Counted(x) == IF x.t = "num" THEN x.v ELSE 0

RECURSIVE SeqSum(_)
SeqSum(s) == IF Len(s) = 0 THEN 0 ELSE s[Len(s)] + SeqSum(SubSeq(s, 1, Len(s) - 1))

\* The sections of the item with the given id (the first one), none if
\* there is no such item.
SectionsOf(doc, id) ==
    LET at == {k \in 1..Len(doc.breakdown.items) : doc.breakdown.items[k].id = id}
    IN IF at = {} THEN <<>>
       ELSE doc.breakdown.items[CHOOSE k \in at : \A j \in at : k <= j].sections.items

ReportRaw(doc) ==
    LET ss == SectionsOf(doc, "report")
    IN SeqSum([k \in 1..Len(ss) |-> Counted(ss[k].score)])
ReportMax(doc) ==
    LET ss == SectionsOf(doc, "report")
    IN SeqSum([k \in 1..Len(ss) |-> Counted(ss[k].max_score)])
MediaRaw(doc) ==
    LET ss == SectionsOf(doc, "media")
    IN SeqSum([k \in 1..Len(ss) |->
           SeqSum([j \in 1..Len(ss[k].criteria.items) |->
               Counted(ss[k].criteria.items[j].score)])])
MediaMax(doc) ==
    LET ss == SectionsOf(doc, "media")
    IN SeqSum([k \in 1..Len(ss) |->
           SeqSum([j \in 1..Len(ss[k].criteria.items) |->
               Counted(ss[k].criteria.items[j].max_score)])])

\* A score document: every level has the type the data model gives it
\* (a score may be absent or null).
WellFormedDoc(doc) ==
    /\ doc.t = "obj"
    /\ doc.breakdown.t # "bad"
    /\ \A k \in 1..Len(doc.breakdown.items) :
          LET b == doc.breakdown.items[k]
          IN /\ b.t = "obj" /\ b.sections.t # "bad"
             /\ \A j \in 1..Len(b.sections.items) :
                   LET sec == b.sections.items[j]
                   IN /\ sec.t = "obj" /\ sec.score.t # "str" /\ sec.max_score.t # "str"
                      /\ sec.criteria.t # "bad"
                      /\ \A c \in 1..Len(sec.criteria.items) :
                            /\ sec.criteria.items[c].t = "obj"
                            /\ sec.criteria.items[c].score.t # "str"
                            /\ sec.criteria.items[c].max_score.t # "str"

Abs(x) == IF x < 0 THEN -x ELSE x

\* h hundredths is n/d rounded to 2 decimal places: no other number of
\* hundredths is nearer to n/d.
IsRounded(h, n, d) == 2 * Abs(h * d - 100 * n) <= d

\* C9: for a score document, totals.report is 60 * report_raw / report_max
\* rounded to 2 places, totals.media is 40 * media_raw / media_max rounded to
\* 2 places, and totals.final is the sum of the two unrounded values rounded
\* to 2 places, with report summed over the sections of "report" and media
\* over the criteria of the sections of "media", an absent or null score
\* counting as 0; 60/100 and 19/19 give 36.0, 40.0 and 76.0.
C9_WeightedTotals ==
    (calc_pc = "returned" /\ WellFormedDoc(calc_doc)) =>
        LET rr == ReportRaw(calc_doc)
            rm == ReportMax(calc_doc)
            mr == MediaRaw(calc_doc)
            mm == MediaMax(calc_doc)
            T == calc_ret.data.totals
        IN /\ ~calc_ret.raised /\ T.t = "obj"
           /\ rm > 0 => IsRounded(T.report, 60 * rr, rm)
           /\ mm > 0 => IsRounded(T.media, 40 * mr, mm)
           /\ (rm > 0 /\ mm > 0) =>
                 IsRounded(T.final, 60 * rr * mm + 40 * mr * rm, rm * mm)
           /\ (rm > 0 /\ mm = 0) => T.final = T.report
           /\ (rm = 0 /\ mm > 0) => T.final = T.media
           /\ (rr = 60 /\ rm = 100 /\ mr = 19 /\ mm = 19) =>
                 T = Totals(3600, 4000, 7600)

\* The document of the example has been scored 36.0, 40.0, 76.0.
C9_Witness ==
    /\ calc_pc = "returned" /\ calc_doc = ExampleDoc
    /\ ReportRaw(calc_doc) = 60 /\ ReportMax(calc_doc) = 100
    /\ MediaRaw(calc_doc) = 19 /\ MediaMax(calc_doc) = 19
    /\ calc_ret.data.totals = Totals(3600, 4000, 7600)

\* C10: for a score document, report_max = 0 gives totals.report = 0 and
\* media_max = 0 gives totals.media = 0, whatever the raw sums are, and
\* totals is not null.
C10_ZeroDenominator ==
    (calc_pc = "returned" /\ WellFormedDoc(calc_doc)) =>
        LET T == calc_ret.data.totals
        IN /\ ~calc_ret.raised /\ T.t = "obj"
           /\ ReportMax(calc_doc) = 0 => T.report = 0
           /\ MediaMax(calc_doc) = 0 => T.media = 0

\* A document with report_max = 0 and report_raw > 0 has been scored 0 for
\* the report, with a "media" part that is scored above 0.
C10_Witness ==
    /\ calc_pc = "returned" /\ WellFormedDoc(calc_doc)
    /\ ReportMax(calc_doc) = 0 /\ ReportRaw(calc_doc) > 0
    /\ calc_ret.data.totals.t = "obj"
    /\ calc_ret.data.totals.report = 0
    /\ calc_ret.data.totals.media > 0

(* ------------------------------------------------------- the batch call *)
SameLengths ==
    Cardinality({Len(files), Len(company_names), Len(website_urls)}) = 1
NoPdfSubmitted == \A k \in 1..Len(files) : files[k].content_type # PdfType
Finished == ep_pc \in {"rejected", "returned", "failed"}
NothingStarted ==
    /\ reads = <<>> /\ tasks = <<>> /\ pipe = <<>> /\ results = <<>>

AllFailed(t) ==
    /\ pipe[t].pc = "done"
    /\ Len(pipe[t].attempts) = Len(FALLBACK_MODELS)
    /\ \A k \in 1..Len(pipe[t].attempts) : ~pipe[t].attempts[k].ok
Accepted(t) ==
    /\ pipe[t].pc = "done"
    /\ Len(pipe[t].attempts) > 0
    /\ pipe[t].attempts[Len(pipe[t].attempts)].ok

\* The structural contract of a score document: breakdown is an array
\* holding exactly the items "report" and "media", each with a sections
\* array.
IsScoreDocument(d) ==
    /\ d.t = "obj"
    /\ d.breakdown.t = "list"
    /\ Len(d.breakdown.items) = 2
    /\ {d.breakdown.items[k].id : k \in 1..2} = {"report", "media"}
    /\ \A k \in 1..2 :
          d.breakdown.items[k].t = "obj" /\ d.breakdown.items[k].sections.t = "list"

\* C1: the models are attempted in the order of the list, each at most
\* once, the next one only after the one before failed, and none after a
\* response that parsed as a JSON object (which every response passing the
\* structural parsing does).
C1_FallbackOrder ==
    \A t \in 1..Len(pipe) :
        LET a == pipe[t].attempts
        IN /\ Len(a) <= Len(FALLBACK_MODELS)
           /\ \A k \in 1..Len(a) : a[k].model = FALLBACK_MODELS[k]
           /\ \A k \in 1..Len(a) :
                 (a[k].ok \/ a[k].parsed = "obj") => (k = Len(a) /\ pipe[t].pc = "done")
           /\ pipe[t].pc = "invoking" => pipe[t].model_i = Len(a) + 1

\* The first model failed, the second was attempted and returned.
C1_Witness ==
    \E t \in 1..Len(pipe) :
        /\ pipe[t].pc = "done"
        /\ Len(pipe[t].attempts) = 2
        /\ ~pipe[t].attempts[1].ok /\ pipe[t].attempts[1].model = FALLBACK_MODELS[1]
        /\ pipe[t].attempts[2].ok /\ pipe[t].attempts[2].model = FALLBACK_MODELS[2]

\* A document's pipeline faulted: the extractor raised, every model failed,
\* or the accepted model output is not a score document.
Faulted(t) ==
    \/ pipe[t].faulted
    \/ AllFailed(t)
    \/ Accepted(t) /\ ~(IsScoreDocument(pipe[t].result) /\ IsScoringResult(pipe[t].result))

\* C2: a batch that passes the length check and keeps a PDF returns one
\* result per dispatched document whatever faults in a pipeline, and the
\* result of a faulted document has totals = null.
C2_Isolation ==
    (SameLengths /\ ~NoPdfSubmitted /\ Finished) =>
        /\ ep_pc = "returned"
        /\ Len(response) = Len(tasks)
        /\ \A t \in 1..Len(tasks) :
              /\ response[t] = pipe[t].result
              /\ Faulted(t) => response[t].totals = NullTotals

\* C3: when every submitted document is dispatched, the i-th returned
\* element is the result of the pipeline of the i-th input, and gather
\* holds each finished pipeline's result at its input index meanwhile.
C3_InputOrder ==
    (Len(tasks) = Len(files) /\ ep_pc \in {"gather", "returned"}) =>
        /\ \A k \in 1..Len(tasks) :
              /\ tasks[k].file_content = k
              /\ Done(k) => results[k] = pipe[k].result
        /\ ep_pc = "returned" =>
              /\ Len(response) = Len(files)
              /\ \A k \in 1..Len(files) : response[k] = pipe[k].result

\* Two documents were returned, the first degraded and the second scored.
C3_Witness ==
    /\ ep_pc = "returned" /\ Len(files) = 2 /\ Len(response) = 2
    /\ response[1] = pipe[1].result /\ response[2] = pipe[2].result
    /\ response[1].totals = NullTotals /\ response[2].totals.t = "obj"
    /\ response[1].company = company_names[1]
    /\ response[2].company = company_names[2]

\* C4: a batch call ends with one of the two rejections or returns a list
\* of well-typed ScoringResult records; it never fails otherwise.
C4_OnlyBatchRejections ==
    Finished =>
        \/ /\ ep_pc = "rejected"
           /\ http.status = 400 /\ http.detail \in {"length mismatch", "no valid PDF"}
        \/ /\ ep_pc = "returned"
           /\ \A k \in 1..Len(response) : IsScoringResult(response[k])

\* C5: an attempt is accepted only if the response is a score document.
C5_AcceptsOnlyScoreDocuments ==
    \A t \in 1..Len(pipe) : Accepted(t) => IsScoreDocument(pipe[t].result)

\* C6: when every model failed, the result has totals = null, a non-empty
\* overview_comment, the request's company name and empty strengths,
\* improvements and breakdown; so has the returned element.
C6_Exhausted ==
    \A t \in 1..Len(pipe) :
        AllFailed(t) =>
            /\ pipe[t].result.totals = NullTotals
            /\ Len(pipe[t].result.overview_comment) > 0
            /\ pipe[t].result.company = company_names[tasks[t].file_content]
            /\ pipe[t].result.strengths = {}
            /\ pipe[t].result.improvements = {}
            /\ pipe[t].result.breakdown = List(<<>>)
            /\ ep_pc = "returned" => response[t] = pipe[t].result

\* Both models failed, the first on a service error and the second on a
\* response that is not JSON, for the second document of a batch.
C6_Witness ==
    /\ Len(pipe) = 2 /\ AllFailed(2)
    /\ pipe[2].attempts[1].parsed = "none"
    /\ pipe[2].attempts[2].parsed = "garbage"
    /\ ep_pc = "returned"

\* C7: a batch whose three sequences differ in length is rejected with the
\* length error before anything is read or started, whatever the content
\* types.
C7_LengthMismatch ==
    ~SameLengths =>
        /\ ep_pc \in {"start", "rejected"}
        /\ NothingStarted
        /\ ep_pc = "rejected" => http = [status |-> 400, detail |-> "length mismatch"]

\* Two PDFs with two company names and one URL were rejected.
C7_Witness ==
    /\ ep_pc = "rejected" /\ http.detail = "length mismatch"
    /\ Len(files) = 2 /\ Len(company_names) = 2 /\ Len(website_urls) = 1
    /\ \A k \in 1..2 : files[k].content_type = PdfType

\* C8 as stated: a batch without any PDF ends with the "no valid input"
\* rejection, nothing having been started.
C8_NoPdfAlwaysNoValidInput ==
    (NoPdfSubmitted /\ Finished) =>
        /\ ep_pc = "rejected" /\ http = [status |-> 400, detail |-> "no valid PDF"]
        /\ NothingStarted

\* C8 amended: a batch that passes the length check and has no PDF ends
\* with the "no valid input" rejection, nothing having been read or started.
C8_NoValidInput ==
    (SameLengths /\ NoPdfSubmitted) =>
        /\ ep_pc \in {"start", "loop", "rejected"}
        /\ NothingStarted
        /\ ep_pc = "rejected" => http = [status |-> 400, detail |-> "no valid PDF"]

\* Two files, neither a PDF, were rejected as no valid input.
C8_Witness ==
    /\ ep_pc = "rejected" /\ http.detail = "no valid PDF"
    /\ SameLengths /\ Len(files) = 2 /\ NoPdfSubmitted

(* -------------------------------------------------- the degraded results *)
\* The error text an attempt fails with, by what its response parsed to:
\* the service's error when the call raised, the JSON error for a text that
\* is not JSON, the TypeError of line 206 for a JSON value that is no object.
ErrorOfAttempt(a) ==
    IF a.parsed = "none" THEN <<"503 service unavailable">>
    ELSE IF a.parsed = "garbage" THEN <<"JSON parse failed - ", "Expecting value">>
    ELSE <<"object does not support item assignment">>

\* C11: when every model failed, the overview_comment of the result ends
\* with the error of the last attempt, service error or parse failure, and
\* last_error always is the error of the most recent failed attempt.
C11_LastErrorKept ==
    \A t \in 1..Len(pipe) :
        LET a == pipe[t].attempts
        IN /\ (Len(a) > 0 /\ ~a[Len(a)].ok) =>
                 pipe[t].last_error = ErrorOfAttempt(a[Len(a)])
           /\ AllFailed(t) =>
                 /\ pipe[t].result.overview_comment
                        = <<"all fallback models failed, last error: ">>
                              \o ErrorOfAttempt(a[Len(a)])
                 /\ ep_pc = "returned" =>
                        response[t].overview_comment = pipe[t].result.overview_comment

\* The first model failed on a service error and the last on a text that
\* is not JSON; the result speaks of the JSON error.
C11_Witness ==
    \E t \in 1..Len(pipe) :
        /\ AllFailed(t)
        /\ pipe[t].attempts[1].parsed = "none"
        /\ pipe[t].attempts[Len(pipe[t].attempts)].parsed = "garbage"
        /\ pipe[t].result.overview_comment[2] = "JSON parse failed - "
        /\ ep_pc = "returned"

\* C12: when the extractor faults, the pipeline returns at once a result
\* with totals = null, the extraction error as overview_comment and the
\* request's company name; no model is attempted and the extraction is not
\* repeated.
C12_ExtractionFailure ==
    \A t \in 1..Len(pipe) :
        /\ pipe[t].extractions <= 1
        /\ pipe[t].faulted =>
              /\ pipe[t].pc = "done"
              /\ pipe[t].attempts = <<>>
              /\ pipe[t].extractions = 1
              /\ pipe[t].result.totals = NullTotals
              /\ pipe[t].result.overview_comment
                     = <<"ERROR:", "cannot read PDF file", files[tasks[t].file_content].filename>>
              /\ pipe[t].result.company = company_names[tasks[t].file_content]
              /\ ep_pc = "returned" => response[t] = pipe[t].result

\* The second document of a returned batch is unreadable, the first one
\* was scored.
C12_Witness ==
    /\ ep_pc = "returned" /\ Len(pipe) = 2
    /\ pipe[2].faulted /\ response[2].totals = NullTotals
    /\ response[1].totals.t = "obj"

(* ------------------------------------------------- aggregation, continued *)
\* C13: _calculate_final_scores never propagates a fault: whatever the
\* parsed response is, an object or not, it returns, with totals set (to
\* null when the computation faulted).
C13_AggregatorNeverRaises ==
    calc_pc = "returned" =>
        /\ ~calc_ret.raised
        /\ calc_ret.data.totals.t \in {"obj", "null"}
        /\ ComputeRaises(calc_doc) => calc_ret.data.totals = NullTotals

(* ------------------------------------------------ the batch call, continued *)
PdfIndices == {k \in 1..Len(files) : files[k].content_type = PdfType}

\* C14: the files that are not PDFs are dropped: the tasks are the PDF
\* inputs in their input order, each with the company name and the URL of
\* its own input index, and the returned list has one result per PDF input,
\* in that order.
C14_FilterKeepsPairing ==
    /\ \A k \in 1..Len(tasks) :
          LET at == tasks[k].file_content
          IN /\ at \in PdfIndices
             /\ tasks[k].filename = files[at].filename
             /\ tasks[k].company_name = company_names[at]
             /\ tasks[k].website_url = website_urls[at]
             /\ k > 1 => tasks[k - 1].file_content < at
    /\ reads = [k \in 1..Len(tasks) |-> tasks[k].file_content]
    /\ ep_pc \in {"gather", "returned", "failed"} =>
          {tasks[k].file_content : k \in 1..Len(tasks)} = PdfIndices
    /\ ep_pc = "returned" =>
          /\ Len(response) = Cardinality(PdfIndices)
          /\ \A k \in 1..Len(response) : response[k] = pipe[k].result

\* A text file then a PDF: one result, computed with the second company
\* name and URL.
C14_Witness ==
    /\ ep_pc = "returned" /\ Len(files) = 2
    /\ files[1].content_type # PdfType /\ files[2].content_type = PdfType
    /\ Len(response) = 1
    /\ tasks[1].company_name = company_names[2]
    /\ tasks[1].website_url = website_urls[2]

\* Some section or criterion of the document has no score.
HasAbsentScore(doc) ==
    \E k \in 1..Len(doc.breakdown.items) :
        \E j \in 1..Len(doc.breakdown.items[k].sections.items) :
            LET sec == doc.breakdown.items[k].sections.items[j]
            IN \/ sec.score = Absent
               \/ \E c \in 1..Len(sec.criteria.items) : sec.criteria.items[c].score = Absent

\* C15: when the aggregation returns, the document it returns is its
\* argument with totals set and nothing else changed: every score and
\* max_score keeps its value and an absent score stays absent.
C15_OnlyTotalsWritten ==
    (calc_pc = "returned" /\ ~calc_ret.raised) =>
        /\ calc_ret.data.breakdown = calc_doc.breakdown
        /\ calc_ret.data.company = calc_doc.company
        /\ calc_ret.data.overview_comment = calc_doc.overview_comment
        /\ calc_ret.data.strengths = calc_doc.strengths
        /\ calc_ret.data.improvements = calc_doc.improvements
        /\ calc_ret.data.t = calc_doc.t
        /\ calc_ret.data.totals.t \in {"obj", "null"}

\* A score document with an absent score has been given totals and still
\* has the absent score.
C15_Witness ==
    /\ calc_pc = "returned" /\ WellFormedDoc(calc_doc)
    /\ HasAbsentScore(calc_doc) /\ HasAbsentScore(calc_ret.data)
    /\ ReportMax(calc_doc) > 0
    /\ calc_ret.data.totals.t = "obj"

(* ------------------------------------------------------------ termination *)
ExtractionFailed(t) ==
    /\ pipe[t].pc = "done" /\ pipe[t].attempts = <<>>
    /\ pipe[t].result = ExtractionFailedResult(tasks[t].company_name, pipe[t].pdf_text)
    /\ StartsWithError(pipe[t].pdf_text)
UnexpectedError(t) ==
    /\ pipe[t].pc = "done" /\ pipe[t].attempts = <<>>
    /\ pipe[t].result = UnexpectedErrorResult(tasks[t].company_name, tasks[t].filename)

\* C16 as stated, its part on the terminal states: a pipeline that has
\* returned has succeeded, exhausted the models or failed to extract.
C16_ThreeTerminalStates ==
    \A t \in 1..Len(pipe) :
        Done(t) => (Accepted(t) \/ AllFailed(t) \/ ExtractionFailed(t))

\* C16 amended: every dispatched pipeline eventually returns, having
\* succeeded, exhausted the models, failed to extract or met the unexpected
\* error of the outer except, after at most one extraction and at most
\* len(FALLBACK_MODELS) attempts, and the batch call then ends.
C16_Terminates ==
    /\ [](\A t \in 1..Len(pipe) :
             /\ pipe[t].extractions <= 1
             /\ Len(pipe[t].attempts) <= Len(FALLBACK_MODELS)
             /\ Done(t) => (Accepted(t) \/ AllFailed(t) \/ ExtractionFailed(t)
                               \/ UnexpectedError(t)))
    /\ (ep_pc = "gather") ~>
          (ep_pc \in {"returned", "failed"} /\ \A t \in 1..Len(pipe) : Done(t))

\* A batch of two has ended after one pipeline used both models and the
\* other failed to extract.
C16_Witness ==
    /\ ep_pc = "returned" /\ Len(pipe) = 2
    /\ Len(pipe[1].attempts) = Len(FALLBACK_MODELS) /\ pipe[1].extractions = 1
    /\ ExtractionFailed(2)

(* ------------------------------------------------ extraction sentinel *)
\* C17: a document gets the extraction-failure result only if the extractor
\* faulted; a document whose text was extracted, whatever the text, goes on
\* to the model and never ends with that result.
C17_DegradedOnlyOnFault ==
    \A t \in 1..Len(pipe) :
        (pipe[t].extractions = 1 /\ ~pipe[t].faulted) => ~ExtractionFailed(t)

(* ------------------------------------------------------- company name *)
\* C18: every result of the batch output carries as company the company
\* name of the request it was computed from.
C18_CompanyOfRequest ==
    ep_pc = "returned" =>
        \A k \in 1..Len(response) : response[k].company = tasks[k].company_name

(* --------------------------------------------------------- total ranges *)
\* C19: whenever the aggregator returns non-null totals, report is within
\* 0..60, media within 0..40 and final within 0..100 (totals in hundredths).
C19_TotalsInRange ==
    (calc_pc = "returned" /\ ~calc_ret.raised /\ calc_ret.data.totals.t = "obj") =>
        /\ 0 <= calc_ret.data.totals.report /\ calc_ret.data.totals.report <= 6000
        /\ 0 <= calc_ret.data.totals.media /\ calc_ret.data.totals.media <= 4000
        /\ 0 <= calc_ret.data.totals.final /\ calc_ret.data.totals.final <= 10000

====
